---------------------------- MODULE Spec2Model ----------------------------
(***************************************************************************)
(* Model of the control loops of common_utils.py: retry_operation,         *)
(* wait_with_timeout, DockerHelper.wait_for_container and                  *)
(* validate_prerequisites.  One call of one of the four functions is a     *)
(* behaviour; the callables handed in (operation_func, condition_func),    *)
(* the Docker SDK and the wall clock are the environment and are chosen    *)
(* nondeterministically at each use.  Errors raised by the callables and   *)
(* the SDK are instances of Exception.                                     *)
(***************************************************************************)
EXTENDS Integers, Sequences, FiniteSets, TLC

\* ---------------------------------------------------------------- bounds
MaxRetries == 4
MaxDelay == 2
MaxTimeout == 5
MaxInterval == 2
MaxLag == 1
MaxStart == 1
MaxContainers == 3
\* cap on loop iterations; only a loop that does not advance the clock
\* (check_interval = 0 and no lag) can reach it
MaxEvals == MaxTimeout + 2

Values == {"v1", "v2"}
Errors == {"e1", "e2"}
Markers == {"m1", "m2"}
Names == {"a", "b"}

\* ------------------------------------------------------ program constants
\* StatusIndicators
SUCCESS == "[SUCCESS]"
ERROR == "[ERROR]"
WARNING == "[WARNING]"
WORKING == "[WORKING]"
\* progress periods of the two pollers
WaitProgressPeriod == 15
ContainerProgressPeriod == 10

VARIABLES
    fn,                  \* the function this behaviour calls
    pc,                  \* position inside it
    max_retries, delay,  \* retry_operation arguments
    timeout, check_interval,   \* poller arguments
    ready_messages,      \* wait_for_container argument
    required_containers, \* validate_prerequisites argument
    attempt,             \* retry loop variable / loop cursor
    start_time, now,     \* start_time local and the value time.time() returns
    lag,                 \* time that passed beyond the requested sleeps
    calls,               \* outcomes of the callable / SDK invocations so far
    sleeps,              \* arguments of the time.sleep calls so far
    notes,               \* print_status calls so far
    idx,                 \* validate_prerequisites: containers looked up so far
    missing_containers,  \* validate_prerequisites local
    result               \* how the call ended

vars == <<fn, pc, max_retries, delay, timeout, check_interval, ready_messages,
          required_containers, attempt, start_time, now, lag, calls, sleeps,
          notes, idx, missing_containers, result>>

args == <<fn, max_retries, delay, timeout, check_interval, ready_messages,
          required_containers>>

RECURSIVE Pow2(_)
Pow2(n) == IF n <= 0 THEN 1 ELSE 2 * Pow2(n - 1)

RECURSIVE SumSeq(_)
SumSeq(s) == IF s = <<>> THEN 0 ELSE Head(s) + SumSeq(Tail(s))

Note(status, msg, details) == [status |-> status, msg |-> msg, details |-> details]

\* one invocation of a callable or of the SDK, with how it ended
Call(op, arg, out) == [op |-> op, arg |-> arg, kind |-> out.kind, val |-> out.val]

Returned(v) == [kind |-> "return", val |-> v]
Raised(e) == [kind |-> "raise", val |-> e]
Running == [kind |-> "none", val |-> "-"]

\* time.sleep(d): d is recorded, the clock moves on by d plus the lag l
Sleep(d, l) ==
    /\ sleeps' = Append(sleeps, d)
    /\ now' = now + d + l
    /\ lag' = lag + l

InitLocals ==
    /\ attempt = 0
    /\ now \in 0..MaxStart
    /\ start_time = 0
    /\ lag = 0
    /\ calls = <<>>
    /\ sleeps = <<>>
    /\ notes = <<>>
    /\ idx = 0
    /\ missing_containers = <<>>
    /\ result = Running

\* ------------------------------------------------------- retry_operation
InitRetry ==
    /\ fn = "retry_operation" /\ pc = "retry_loop"
    /\ max_retries \in -1..MaxRetries
    /\ delay \in 0..MaxDelay
    /\ timeout = 0 /\ check_interval = 0
    /\ ready_messages = <<>> /\ required_containers = <<>>
    /\ InitLocals

\* what operation_func() does when invoked
OpOutcomes == {Returned(v) : v \in Values} \cup {Raised(e) : e \in Errors}

\* the loop test of for attempt in range(max_retries)
InRangeInclusive(i, n) == i <= n
InRange(i, n) == i < n

\* the test for the last allowed attempt
IsLastAttemptEarly(i, n) == i >= n - 2
IsLastAttempt(i, n) == i = n - 1

\* the error the last allowed attempt re-signals: the bare raise of the
\* handler that caught e (history: the invocations so far)
ReraiseFirst(e, history) == Raised(history[1].val)
Reraise(e, history) == Raised(e)

\* the argument of the sleep after failed attempt i
wait_time_linear(d, i) == d * (i + 1)
wait_time(d, i) == d * Pow2(i)

\* one iteration of the for loop: invoke, return on success, and in the
\* handler either re-raise (last attempt) or warn and sleep
RetryAttempt ==
    /\ fn = "retry_operation" /\ pc = "retry_loop"
    /\ InRange(attempt, max_retries)
    /\ \E out \in OpOutcomes, l \in 0..MaxLag :
        /\ calls' = Append(calls, Call("operation_func", "-", out))
        /\ IF out.kind = "return"
             THEN /\ result' = out
                  /\ pc' = "done"
                  /\ UNCHANGED <<attempt, notes, sleeps, now, lag>>
             ELSE IF IsLastAttempt(attempt, max_retries)
               THEN /\ notes' = Append(notes, Note(ERROR, "failed after attempts", out.val))
                    /\ result' = Reraise(out.val, calls')
                    /\ pc' = "done"
                    /\ UNCHANGED <<attempt, sleeps, now, lag>>
               ELSE /\ notes' = Append(notes, Note(WARNING, "attempt failed, retrying", "-"))
                    /\ Sleep(wait_time(delay, attempt), l)
                    /\ attempt' = attempt + 1
                    /\ UNCHANGED <<pc, result>>
    /\ UNCHANGED <<args, start_time, idx, missing_containers>>

\* range(max_retries) is exhausted without a return or a raise: the
\* function falls off its end
RetryFallThrough ==
    /\ fn = "retry_operation" /\ pc = "retry_loop"
    /\ ~InRange(attempt, max_retries)
    /\ result' = Returned("None")
    /\ pc' = "done"
    /\ UNCHANGED <<args, attempt, start_time, now, lag, calls, sleeps, notes,
                   idx, missing_containers>>

\* ----------------------------------------------------- wait_with_timeout
InitWait ==
    /\ fn = "wait_with_timeout" /\ pc = "wait_start"
    /\ timeout \in 0..MaxTimeout
    /\ check_interval \in 0..MaxInterval
    /\ max_retries = 0 /\ delay = 0
    /\ ready_messages = <<>> /\ required_containers = <<>>
    /\ InitLocals

\* time.time() - start_time, at clock value t
ElapsedAbsolute(t) == t
Elapsed(t) == t - start_time

\* the loop condition of both pollers
WithinTimeoutInclusive(t) == Elapsed(t) <= timeout
WithinTimeout(t) == Elapsed(t) < timeout

\* if condition_func(): the test of the value returned
CondHoldsInverted(out) == out.val = "False"
CondHolds(out) == out.val = "True"

\* an error raised where no handler encloses the call leaves the function
UncaughtSwallowed(out) == Returned("False")
Uncaught(out) == out

\* what condition_func() does when evaluated
CondOutcomes == {Returned("True"), Returned("False")} \cup {Raised(e) : e \in Errors}

WaitStart ==
    /\ fn = "wait_with_timeout" /\ pc = "wait_start"
    /\ start_time' = now
    /\ notes' = Append(notes, Note(WORKING, "Waiting", "-"))
    /\ pc' = "wait_loop"
    /\ UNCHANGED <<args, attempt, now, lag, calls, sleeps, idx,
                   missing_containers, result>>

\* one iteration of the while loop: the timeout test, the evaluation of the
\* condition (taking c), the progress note and the sleep (taking l more than
\* asked)
WaitIteration ==
    /\ fn = "wait_with_timeout" /\ pc = "wait_loop"
    /\ WithinTimeout(now)
    /\ Len(calls) < MaxEvals
    /\ \E out \in CondOutcomes, c \in 0..MaxLag, l \in 0..MaxLag :
        /\ calls' = Append(calls, Call("condition_func", "-", out))
        /\ IF out.kind = "raise"
             THEN /\ result' = Uncaught(out)
                  /\ pc' = "done"
                  /\ now' = now + c
                  /\ lag' = lag + c
                  /\ UNCHANGED <<notes, sleeps>>
             ELSE IF CondHolds(out)
               THEN /\ notes' = Append(notes, Note(SUCCESS, "completed", "-"))
                    /\ result' = Returned("True")
                    /\ pc' = "done"
                    /\ now' = now + c
                    /\ lag' = lag + c
                    /\ UNCHANGED sleeps
               ELSE /\ LET elapsed == Elapsed(now + c)
                       IN  notes' = IF elapsed % WaitProgressPeriod = 0 /\ elapsed > 0
                                      THEN Append(notes, Note(WORKING, "Still waiting", "-"))
                                      ELSE notes
                    /\ sleeps' = Append(sleeps, check_interval)
                    /\ now' = now + c + check_interval + l
                    /\ lag' = lag + c + l
                    /\ UNCHANGED <<pc, result>>
    /\ UNCHANGED <<args, attempt, start_time, idx, missing_containers>>

\* the loop condition fails
WaitTimedOut ==
    /\ fn = "wait_with_timeout" /\ pc = "wait_loop"
    /\ ~WithinTimeout(now)
    /\ notes' = Append(notes, Note(ERROR, "timed out", "-"))
    /\ result' = Returned("False")
    /\ pc' = "done"
    /\ UNCHANGED <<args, attempt, start_time, now, lag, calls, sleeps, idx,
                   missing_containers>>

\* ------------------------------------------ DockerHelper.wait_for_container
RECURSIVE SeqsUpTo(_, _)
SeqsUpTo(S, n) ==
    IF n = 0 THEN {<<>>}
    ELSE LET shorter == SeqsUpTo(S, n - 1)
         IN  shorter \cup {Append(s, x) : s \in shorter, x \in S}

MaxMessages == 2

InitContainer ==
    /\ fn = "wait_for_container" /\ pc = "container_get"
    /\ timeout \in 0..MaxTimeout
    /\ check_interval \in 0..MaxInterval
    /\ ready_messages \in SeqsUpTo(Markers, MaxMessages)
    /\ max_retries = 0 /\ delay = 0
    /\ required_containers = <<>>
    /\ InitLocals

\* what a call of the Docker SDK can raise
SdkErrors == {Raised("NotFound")} \cup {Raised(e) : e \in Errors}

\* the two except clauses of wait_for_container: a note and False
ContainerHandlerReraise(e) ==
    /\ notes' = Append(notes, IF e = "NotFound"
                                THEN Note(ERROR, "not found", "-")
                                ELSE Note(ERROR, "Error waiting", e))
    /\ result' = IF e = "NotFound" THEN Returned("False") ELSE Raised(e)
    /\ pc' = "done"
ContainerHandler(e) ==
    /\ notes' = Append(notes, IF e = "NotFound"
                                THEN Note(ERROR, "not found", "-")
                                ELSE Note(ERROR, "Error waiting", e))
    /\ result' = Returned("False")
    /\ pc' = "done"

\* the for loop over ready_messages: some marker occurs in the logs
IsReady(msgs, logs) == \E i \in 1..Len(msgs) : msgs[i] \in logs

\* client.containers.get, then start_time and the first note
ContainerGet ==
    /\ fn = "wait_for_container" /\ pc = "container_get"
    /\ \/ /\ calls' = Append(calls, Call("containers.get", "-", Returned("container")))
          /\ start_time' = now
          /\ notes' = Append(notes, Note(WORKING, "Waiting", "-"))
          /\ pc' = "container_loop"
          /\ UNCHANGED result
       \/ \E out \in SdkErrors :
            /\ calls' = Append(calls, Call("containers.get", "-", out))
            /\ ContainerHandler(out.val)
            /\ UNCHANGED start_time
    /\ UNCHANGED <<args, attempt, now, lag, sleeps, idx, missing_containers>>

\* one iteration of the while loop: the timeout test, the log read (taking
\* c), the search for a ready message, the progress note and the sleep
ContainerIteration ==
    /\ fn = "wait_for_container" /\ pc = "container_loop"
    /\ WithinTimeout(now)
    /\ Len(sleeps) < MaxEvals
    /\ \E c \in 0..MaxLag, l \in 0..MaxLag :
        \/ \E out \in SdkErrors :
            /\ calls' = Append(calls, Call("logs", "-", out))
            /\ ContainerHandler(out.val)
            /\ now' = now + c
            /\ lag' = lag + c
            /\ UNCHANGED sleeps
        \/ \E logs \in SUBSET Markers :
            /\ calls' = Append(calls, Call("logs", "-", Returned("bytes")))
            /\ IF IsReady(ready_messages, logs)
                 THEN /\ notes' = Append(notes, Note(SUCCESS, "is ready", "-"))
                      /\ result' = Returned("True")
                      /\ pc' = "done"
                      /\ now' = now + c
                      /\ lag' = lag + c
                      /\ UNCHANGED sleeps
                 ELSE /\ LET elapsed == Elapsed(now + c)
                         IN  notes' = IF elapsed % ContainerProgressPeriod = 0
                                        THEN Append(notes, Note(WORKING, "Still waiting", "-"))
                                        ELSE notes
                      /\ sleeps' = Append(sleeps, check_interval)
                      /\ now' = now + c + check_interval + l
                      /\ lag' = lag + c + l
                      /\ UNCHANGED <<pc, result>>
    /\ UNCHANGED <<args, attempt, start_time, idx, missing_containers>>

ContainerTimedOut ==
    /\ fn = "wait_for_container" /\ pc = "container_loop"
    /\ ~WithinTimeout(now)
    /\ notes' = Append(notes, Note(ERROR, "did not start within", "-"))
    /\ result' = Returned("False")
    /\ pc' = "done"
    /\ UNCHANGED <<args, attempt, start_time, now, lag, calls, sleeps, idx,
                   missing_containers>>

\* ------------------------------------------------- validate_prerequisites
InitValidate ==
    /\ fn = "validate_prerequisites" /\ pc = "validate_network"
    /\ required_containers \in SeqsUpTo(Names, MaxContainers)
    /\ max_retries = 0 /\ delay = 0 /\ timeout = 0 /\ check_interval = 0
    /\ ready_messages = <<>>
    /\ InitLocals

\* what containers.get(name) gives: a container with a status, or an error
LookupOutcomes == {Returned("running"), Returned("exited")} \cup SdkErrors

\* the except NotFound clause of the loop body adds the name to
\* missing_containers; a container that was found is never added
CountsAsMissingOrStopped(out) == out.kind = "raise" \/ out.val # "running"
CountsAsMissing(out) == out.kind = "raise"

\* the status line of one container
ContainerNote(out, name) ==
    IF out.kind = "raise" THEN Note(ERROR, "Container not found", name)
    ELSE IF out.val = "running" THEN Note(SUCCESS, "Container running", name)
    ELSE Note(WARNING, "Container not running", name)

\* networks.get: only NotFound is handled, any other error leaves the function
ValidateNetwork ==
    /\ fn = "validate_prerequisites" /\ pc = "validate_network"
    /\ \E out \in {Returned("network")} \cup SdkErrors :
        /\ calls' = Append(calls, Call("networks.get", "-", out))
        /\ IF out.kind = "return"
             THEN /\ notes' = Append(notes, Note(SUCCESS, "Network exists", "-"))
                  /\ pc' = "validate_containers"
                  /\ UNCHANGED result
             ELSE IF out.val = "NotFound"
               THEN /\ notes' = Append(notes, Note(ERROR, "Network not found", "-"))
                    /\ result' = Returned("False")
                    /\ pc' = "done"
               ELSE /\ result' = Uncaught(out)
                    /\ pc' = "done"
                    /\ UNCHANGED notes
    /\ UNCHANGED <<args, attempt, start_time, now, lag, sleeps, idx,
                   missing_containers>>

\* one iteration of the for loop over required_containers
ValidateContainer ==
    /\ fn = "validate_prerequisites" /\ pc = "validate_containers"
    /\ idx < Len(required_containers)
    /\ LET container_name == required_containers[idx + 1]
       IN  \E out \in LookupOutcomes :
            /\ calls' = Append(calls, Call("containers.get", container_name, out))
            /\ IF out.kind = "raise" /\ out.val # "NotFound"
                 THEN /\ result' = Uncaught(out)
                      /\ pc' = "done"
                      /\ UNCHANGED <<notes, idx, missing_containers>>
                 ELSE /\ missing_containers' =
                            IF CountsAsMissing(out)
                              THEN Append(missing_containers, container_name)
                              ELSE missing_containers
                      /\ notes' = Append(notes, ContainerNote(out, container_name))
                      /\ idx' = idx + 1
                      /\ UNCHANGED <<result, pc>>
    /\ UNCHANGED <<args, attempt, start_time, now, lag, sleeps>>

\* after the loop: False when a container is missing, True otherwise
ValidateFinish ==
    /\ fn = "validate_prerequisites" /\ pc = "validate_containers"
    /\ idx >= Len(required_containers)
    /\ IF missing_containers # <<>>
         THEN /\ notes' = Append(notes, Note(ERROR, "Missing containers", "-"))
              /\ result' = Returned("False")
         ELSE /\ notes' = Append(notes, Note(SUCCESS, "All prerequisites satisfied", "-"))
              /\ result' = Returned("True")
    /\ pc' = "done"
    /\ UNCHANGED <<args, attempt, start_time, now, lag, calls, sleeps, idx,
                   missing_containers>>

\* ---------------------------------------------------------- specification
Init == InitRetry \/ InitWait \/ InitContainer \/ InitValidate

Next ==
    \/ RetryAttempt
    \/ RetryFallThrough
    \/ WaitStart
    \/ WaitIteration
    \/ WaitTimedOut
    \/ ContainerGet
    \/ ContainerIteration
    \/ ContainerTimedOut
    \/ ValidateNetwork
    \/ ValidateContainer
    \/ ValidateFinish

Spec == Init /\ [][Next]_vars

\* the code is sequential and blocking: a call that can take a step takes it
FairSpec == Spec /\ WF_vars(Next)

\* ------------------------------------------------------------ properties
Done == pc = "done"

\* time that has passed since the call began
TimePassed == SumSeq(sleeps) + lag

AllRaised == \A i \in 1..Len(calls) : calls[i].kind = "raise"
AllFalse == \A i \in 1..Len(calls) : calls[i].kind = "return" /\ calls[i].val = "False"
LastNote == notes[Len(notes)]
HasNote(msg) == \E i \in 1..Len(notes) : notes[i].msg = msg
Ceil(a, b) == (a + b - 1) \div b

TypeOK ==
    /\ fn \in {"retry_operation", "wait_with_timeout", "wait_for_container",
               "validate_prerequisites"}
    /\ result.kind \in {"none", "return", "raise"}
    /\ (result.kind = "none") <=> ~Done
    /\ lag \in Nat /\ now \in Nat /\ attempt \in Nat /\ idx \in Nat

\* once the poller has read start_time, the elapsed time it computes is the
\* time that has passed since the call began
ElapsedIsTimePassed ==
    pc \in {"wait_loop", "container_loop"} => Elapsed(now) = TimePassed

\* C1: with max_retries >= 1 and an operation_func that raises on every
\* invocation, retry_operation invokes it exactly max_retries times (never
\* more, and it does not end before) and ends by raising the error of the
\* last, max_retries-th invocation, with the failure note carrying that error.
C1_AlwaysFailingRaisesLast ==
    (fn = "retry_operation" /\ max_retries >= 1 /\ AllRaised) =>
        /\ Len(calls) <= max_retries
        /\ Done => /\ Len(calls) = max_retries
                   /\ result = Raised(calls[max_retries].val)
                   /\ LastNote = Note(ERROR, "failed after attempts", calls[max_retries].val)

C1_Witness ==
    /\ fn = "retry_operation" /\ Done /\ max_retries = 3 /\ AllRaised
    /\ Len(calls) = 3
    /\ calls[1].val # calls[3].val /\ calls[2].val # calls[3].val
    /\ result = Raised(calls[3].val)

\* C2: with max_retries >= 1, the first invocation of operation_func that
\* returns, the k-th, is the last one: the call has ended there, k is at
\* most max_retries, the k-1 earlier invocations raised, the value is
\* returned unchanged and nothing is raised; and a call never gives up (ends
\* with only failures) before max_retries invocations, so every
\* k <= max_retries is waited for.
C2_SuccessOnKthReturnsValue ==
    (fn = "retry_operation" /\ max_retries >= 1) =>
        /\ \A k \in 1..Len(calls) :
              calls[k].kind = "return" =>
                 /\ k = Len(calls) /\ k <= max_retries
                 /\ \A j \in 1..(k - 1) : calls[j].kind = "raise"
                 /\ Done
                 /\ result = Returned(calls[k].val)
        /\ (Done /\ AllRaised) => Len(calls) >= max_retries
        /\ (Done /\ result.kind = "return") =>
              /\ Len(calls) >= 1
              /\ calls[Len(calls)].kind = "return"

C2_Witness ==
    /\ fn = "retry_operation" /\ Done /\ max_retries = 4
    /\ Len(calls) = 3
    /\ calls[1].kind = "raise" /\ calls[2].kind = "raise"
    /\ calls[3].kind = "return"
    /\ result = Returned("v2")

NonDecreasing(s) == \A i \in 1..(Len(s) - 1) : s[i] <= s[i + 1]

\* C3: the i-th sleep of a retry_operation call (after failed attempt i-1,
\* 0-indexed) is delay * 2^(i-1); the sleeps are non-decreasing; while the
\* loop runs there is one sleep per failed attempt, and a call that ended
\* after invoking the operation took one sleep less than invocations: none
\* after the last allowed failure and none after a success.
C3_BackoffSleeps ==
    fn = "retry_operation" =>
        /\ \A i \in 1..Len(sleeps) : sleeps[i] = delay * Pow2(i - 1)
        /\ NonDecreasing(sleeps)
        /\ ~Done => (Len(sleeps) = Len(calls) /\ AllRaised)
        /\ (Done /\ Len(calls) >= 1) => Len(sleeps) = Len(calls) - 1

C3_Witness ==
    /\ fn = "retry_operation" /\ Done /\ delay = 2
    /\ sleeps = <<2, 4, 8>>
    /\ Len(calls) = 4

\* C4: in wait_with_timeout the first evaluation of condition_func that
\* returns true, the k-th, was made with the elapsed time below timeout and
\* is the last one: the call has returned true there with exactly k
\* evaluations and k-1 sleeps, each of check_interval.
C4_ReturnsOnFirstTrue ==
    fn = "wait_with_timeout" =>
        /\ \A k \in 1..Len(calls) :
              (calls[k].kind = "return" /\ calls[k].val = "True") =>
                 /\ k = Len(calls)
                 /\ Done /\ result = Returned("True")
                 /\ Len(sleeps) = k - 1
                 /\ \A i \in 1..Len(sleeps) : sleeps[i] = check_interval
                 /\ SumSeq(sleeps) < timeout
                 /\ LastNote = Note(SUCCESS, "completed", "-")
        /\ (Done /\ result = Returned("True")) =>
              (Len(calls) >= 1 /\ calls[Len(calls)].val = "True")

C4_Witness ==
    /\ fn = "wait_with_timeout" /\ Done /\ check_interval = 1
    /\ Len(calls) = 3 /\ calls[3].val = "True"
    /\ result = Returned("True")
    /\ Len(sleeps) = 2
    /\ TimePassed < timeout

\* C5: a wait_with_timeout call whose condition returned false on every
\* evaluation ends by returning false; wait_with_timeout returns false only
\* when the time passed has reached timeout; and when the clock advanced by
\* the sleeps alone (check_interval > 0), the false return comes after
\* exactly ceil(timeout / check_interval) evaluations.
C5_FalseAtTimeout ==
    (fn = "wait_with_timeout" /\ Done) =>
        /\ AllFalse => result = Returned("False")
        /\ result = Returned("False") =>
              /\ AllFalse
              /\ TimePassed >= timeout
              /\ LastNote = Note(ERROR, "timed out", "-")
              /\ (lag = 0 /\ check_interval > 0) =>
                    Len(calls) = Ceil(timeout, check_interval)

C5_Witness ==
    /\ fn = "wait_with_timeout" /\ Done
    /\ timeout = 5 /\ check_interval = 2 /\ lag = 0
    /\ result = Returned("False")
    /\ Len(calls) = 3

\* C6: wait_for_container never ends by raising.  When the container lookup
\* raises NotFound the call has returned false with an error note, with no
\* log read and no sleep; and whichever SDK call raises (the lookup or a
\* log read, NotFound or not), that call is the last one: the call has
\* returned false with an error note and the only sleeps are those that
\* followed the earlier log reads.
C6_ContainerErrorsBecomeFalse ==
    fn = "wait_for_container" =>
        /\ result.kind # "raise"
        /\ (Len(calls) >= 1 /\ calls[1] = Call("containers.get", "-", Raised("NotFound"))) =>
              /\ Done /\ result = Returned("False")
              /\ Len(calls) = 1 /\ sleeps = <<>>
              /\ notes = <<Note(ERROR, "not found", "-")>>
        /\ \A k \in 1..Len(calls) :
              calls[k].kind = "raise" =>
                 /\ k = Len(calls)
                 /\ Done /\ result = Returned("False")
                 /\ LastNote.status = ERROR
                 /\ LastNote.msg \in {"not found", "Error waiting"}
                 /\ Len(sleeps) = IF k = 1 THEN 0 ELSE k - 2

C6_Witness ==
    /\ fn = "wait_for_container" /\ Done
    /\ Len(calls) = 3
    /\ calls[3] = Call("logs", "-", Raised("e1"))
    /\ Len(sleeps) = 1
    /\ result = Returned("False")
    /\ LastNote = Note(ERROR, "Error waiting", "e1")

\* C7: an error raised by an evaluation of condition_func in
\* wait_with_timeout ends the call at that evaluation: the call ends by
\* raising that same error (it returns neither true nor false), no
\* evaluation and no sleep follows, and no completed or timed-out note is
\* written.
C7_ConditionErrorPropagates ==
    fn = "wait_with_timeout" =>
        /\ \A k \in 1..Len(calls) :
              calls[k].kind = "raise" =>
                 /\ k = Len(calls)
                 /\ Done /\ result = Raised(calls[k].val)
                 /\ Len(sleeps) = k - 1
                 /\ ~HasNote("completed") /\ ~HasNote("timed out")
        /\ (Done /\ result.kind = "raise") =>
              (Len(calls) >= 1 /\ calls[Len(calls)].kind = "raise")

C7_Witness ==
    /\ fn = "wait_with_timeout" /\ Done
    /\ Len(calls) = 2 /\ calls[2].kind = "raise"
    /\ result = Raised("e2")
    /\ Len(sleeps) = 1

Pollers == {"wait_with_timeout", "wait_for_container"}
PollLoops == {"wait_loop", "container_loop"}

\* the clock advanced by the sleeps alone, each adding check_interval
ExactClock == lag = 0 /\ \A i \in 1..Len(sleeps) : sleeps[i] = check_interval

\* a false return that comes from the failed timeout test, not from an
\* except clause of wait_for_container
TimedOut == Done /\ result = Returned("False")
            /\ LastNote.msg \in {"timed out", "did not start within"}

OvershootBelowInterval ==
    /\ TimePassed >= timeout
    /\ TimePassed < timeout + check_interval

\* C8 as stated: with check_interval > 0 and the clock advanced by the sleeps
\* alone, every false return of a poller comes with the elapsed time in
\* [timeout, timeout + check_interval).
C8_Original ==
    (fn \in Pollers /\ check_interval > 0 /\ ExactClock
        /\ Done /\ result = Returned("False")) => OvershootBelowInterval

\* a check (condition evaluation or log read) is made only in an iteration
\* whose timeout test passed
CheckFollowsTimeoutTest ==
    (pc \in PollLoops /\ Len(calls') > Len(calls)) => Elapsed(now) < timeout

\* C8 (amended): in both pollers every check follows a passed timeout test
\* of the same iteration; with check_interval > 0 every call eventually
\* ends; and with the clock advanced by the sleeps alone, a false return
\* that comes from the failed timeout test (not from an except clause of
\* wait_for_container) comes with the elapsed time at least timeout and
\* less than timeout + check_interval.
C8_TimeoutOvershoot ==
    /\ [][CheckFollowsTimeoutTest]_vars
    /\ []((fn \in Pollers /\ check_interval > 0 /\ ExactClock /\ TimedOut)
            => OvershootBelowInterval)
    /\ ((fn \in Pollers /\ check_interval > 0) ~> Done)

C8_Witness ==
    /\ fn = "wait_for_container" /\ TimedOut
    /\ timeout = 5 /\ check_interval = 2 /\ ExactClock
    /\ TimePassed = 6
    /\ Len(calls) = 4

\* C9: with max_retries <= 0 retry_operation invokes nothing, sleeps never,
\* writes no note, raises nothing and ends by returning None.
C9_NoAttemptsReturnsNone ==
    (fn = "retry_operation" /\ max_retries <= 0) =>
        /\ calls = <<>> /\ sleeps = <<>> /\ notes = <<>>
        /\ result.kind # "raise"
        /\ Done => result = Returned("None")

C9_Witness ==
    /\ fn = "retry_operation" /\ Done /\ max_retries = 0
    /\ result = Returned("None") /\ calls = <<>>

AllFound ==
    /\ Len(calls) = 1 + Len(required_containers)
    /\ \A i \in 1..Len(calls) : calls[i].kind = "return"

\* C10: validate_prerequisites returns true exactly when the network lookup
\* succeeded and every required container was looked up and found, whatever
\* its status; when the network is not found it returns false after that one
\* lookup; and a false return that follows a successful network lookup comes
\* only after every required container has been looked up, in order.
C10_ValidateResult ==
    (fn = "validate_prerequisites" /\ Done) =>
        /\ result = Returned("True") <=> AllFound
        /\ calls[1].kind = "raise" /\ calls[1].val = "NotFound" =>
              (result = Returned("False") /\ Len(calls) = 1)
        /\ (result = Returned("False") /\ calls[1].kind = "return") =>
              /\ Len(calls) = 1 + Len(required_containers)
              /\ \A i \in 1..Len(required_containers) :
                    calls[i + 1].arg = required_containers[i]
              /\ \E i \in 2..Len(calls) : calls[i].kind = "raise"

C10_Witness ==
    /\ fn = "validate_prerequisites" /\ Done
    /\ Len(required_containers) = 3
    /\ Len(calls) = 4
    /\ calls[2].kind = "raise" /\ calls[2].val = "NotFound"
    /\ calls[3] = Call("containers.get", required_containers[2], Returned("exited"))
    /\ calls[4].kind = "return"
    /\ result = Returned("False")

\* a true result with a container that is not running
C10_StoppedStillTrue ==
    /\ fn = "validate_prerequisites" /\ Done /\ result = Returned("True")
    /\ \E i \in 2..Len(calls) : calls[i].val = "exited"

=============================================================================
